---- MODULE Spec2Model ----
(***************************************************************************)
(* Model of the Mpesa API client (mpesa.py): the process-wide OAuth token  *)
(* cache, the per-instance Authorization header, and the control flow of   *)
(* one operation call: validate, ensure a fresh token, send the request,   *)
(* re-authenticate and retry once on the stale-token response.             *)
(*                                                                         *)
(* A thread executes one constructor or operation call at a time.  Its     *)
(* frame holds the call's position (pc), its arguments and what it has     *)
(* done so far.  A call is cut into steps at its HTTP calls: the token     *)
(* exchange and the API request.                                           *)
(***************************************************************************)
EXTENDS Integers, Sequences, FiniteSets, TLC

\* Optional[T]: None or one value.
None == <<>>
Some(x) == <<x>>

-----------------------------------------------------------------------------
\* Bounds of the model.

\* The clock advances at most this many times.
MaxTicks == 1
\* The token provider hands out this many different token strings per credential.
NumTokens == 1

-----------------------------------------------------------------------------
\* The threads of the process and the client instances they work with.
Threads == {"t1", "t2"}
MainThreads == {"t1"}
Clients == {"a", "b"}

\* consumer_key / consumer_secret / env given to each instance's constructor.
Credentials == [a |-> "key1", b |-> "key2"]

\* The 9 operation methods with the model and the URL function each binds.
Bindings ==
    [ b2b_payment_request          |-> <<"B2BPaymentRequest", "get_b2b_payment_request_url">>,
      b2c_payment_request          |-> <<"B2CPaymentRequest", "get_b2c_payment_request_url">>,
      c2b_register_url             |-> <<"C2BRegisterURL", "get_c2b_register_url">>,
      c2b_simulate_transaction     |-> <<"C2BSimulateTransaction", "get_c2b_simulate_url">>,
      transaction_status_request   |-> <<"TransactionStatusRequest", "get_transaction_status_url">>,
      account_balance_request      |-> <<"AccountBalanceRequest", "get_account_balance_url">>,
      reversal_request             |-> <<"ReversalRequest", "get_reversal_request_url">>,
      lipa_na_mpesa_online_query   |-> <<"LipaNaMpesaOnlineQuery", "get_stk_push_query_url">>,
      lipa_na_mpesa_online_payment |-> <<"LipaNaMpesaOnlinePayment", "get_stk_push_process_url">> ]

Operations == DOMAIN Bindings

-----------------------------------------------------------------------------
\* Collaborators that are not part of mpesa.py.

\* The payloads a caller passes to an operation.
RawInputs == {"complete", "missing_required_field", "mistyped_required_field"}

\* model(**data): the schema accepts the payload, or raises ValidationError.
ModelAccepts(model, data) == data = "complete"

\* What oauth_generate_token(key, secret, env) can hand back as token_data:
\* nothing, a mapping without access_token, or a mapping with a token and
\* an expires_in that is absent, an integer text, or not a number at all.
ExpiresInValues == { "2", "0", "-1", "soon" }
TokenResponses(cred) ==
    { None, Some([error |-> "invalid_client"]) }
    \cup { Some([access_token |-> [cred |-> cred, id |-> i]]) : i \in 1..NumTokens }
    \cup { Some([access_token |-> [cred |-> cred, id |-> i], expires_in |-> e]) :
             i \in 1..NumTokens, e \in ExpiresInValues }

\* The JSON documents the API server answers with, and their wire form.
JsonBodies == { [ResponseCode |-> "0"],
                [errorCode |-> "404.001.03"],
                [errorCode |-> "401.002.01"] }
JsonDumps(j) ==
    IF "ResponseCode" \in DOMAIN j THEN "{\"ResponseCode\": \"0\"}"
    ELSE IF j.errorCode = "404.001.03" THEN "{\"errorCode\": \"404.001.03\"}"
    ELSE "{\"errorCode\": \"401.002.01\"}"
HtmlText == "<html>Bad Gateway</html>"

\* The answers of the server to one API request: status line and body text.
ServerAnswers ==
    { [status |-> 200, text |-> JsonDumps([ResponseCode |-> "0"])],
      [status |-> 200, text |-> HtmlText],
      [status |-> 200, text |-> JsonDumps([errorCode |-> "404.001.03"])],
      [status |-> 400, text |-> JsonDumps([errorCode |-> "401.002.01"])],
      [status |-> 401, text |-> JsonDumps([errorCode |-> "404.001.03"])],
      [status |-> 401, text |-> JsonDumps([errorCode |-> "401.002.01"])],
      [status |-> 500, text |-> JsonDumps([errorCode |-> "401.002.01"])] }

\* The state of the network when a request is sent.
Links == {"up", "down"}
\* What requests.request raises when the network is down.
TransportFailures == { [exc |-> "ConnectionError"], [exc |-> "Timeout"] }

-----------------------------------------------------------------------------
\* Library functions the client calls.

\* int(expires_in): the number a text or number denotes; ValueError otherwise.
IntTexts == [ t \in {"2", "0", "-1"} |-> CASE t = "2" -> 2 [] t = "0" -> 0 [] t = "-1" -> 0 - 1 ]
IntOf(e) == IF e \in DOMAIN IntTexts THEN Some(IntTexts[e]) ELSE None

\* Response.json(): the parsed body; None stands for JSONDecodeError.
JsonLoads(text) ==
    IF \E j \in JsonBodies : JsonDumps(j) = text
    THEN Some(CHOOSE j \in JsonBodies : JsonDumps(j) = text)
    ELSE None

\* Response.raise_for_status(): raises HTTPError for a 4xx or 5xx status.
RaiseForStatus(status) == 400 <= status /\ status < 600

\* dict.get(key): the value, or None.
Get(m, k) == IF k \in DOMAIN m THEN Some(m[k]) ELSE None

-----------------------------------------------------------------------------
\* The state.

VARIABLES
    now,            \* datetime.now(), in seconds
    ticks,          \* how often the clock has advanced
    access_token,   \* Mpesa._access_token (class attribute)
    token_expiry,   \* Mpesa._token_expiry (class attribute)
    headers,        \* self.headers of each instance
    constructed,    \* the instances whose constructor has returned
    frame           \* the call each thread is executing

vars == <<now, ticks, access_token, token_expiry, headers, constructed, frame>>

\* expires_in when the token response has none.
DefaultExpiresIn == 3600

\* The steps by which the clock advances.
TickSteps == {1, DefaultExpiresIn}

\* self.headers = {}
EmptyHeaders == None
\* {"Authorization": f"Bearer {token}"}
Bearer(token) == Some([Authorization |-> token])

\* What a call hands to its caller.
NoOutcome == [kind |-> "none"]
Returns(body, status) == [kind |-> "return", body |-> body, status |-> status]
Raises(exc) == [kind |-> "raise", exc |-> exc]
Constructed == [kind |-> "instance"]

ValidationErrorOutcome == Returns([message |-> "Validation error"], 400)
RequestFailedOutcome == Returns([message |-> "Request failed"], 500)
RetryFailedOutcome == Returns([message |-> "Request failed after token refresh"], 500)
AuthenticationFailure == Raises("Failed to obtain access token")

IdleFrame ==
    [ pc |-> "idle", self |-> "-", op |-> "-", data |-> "-",
      net |-> <<>>,          \* the state of the network at the requests still to come
      first |-> None,        \* what the first API request of the call was answered
      sent |-> None,         \* the headers of the last API request of the call
      token_data |-> None,   \* what the last token exchange of the call returned
      stale |-> None,        \* the expiry a staleness check found expired, until the exchange
      redundant |-> FALSE,   \* the exchange was made for an expiry already replaced
      nreq |-> 0,            \* API requests sent by this call
      nexch |-> 0,           \* token exchanges made by this call
      nforced |-> 0,         \* _set_access_token calls of line 157 in this call
      ret |-> "-",           \* where _set_access_token returns to
      outcome |-> NoOutcome ]

Init ==
    /\ now = 0
    /\ ticks = 0
    /\ access_token = None
    /\ token_expiry = None
    /\ headers = [c \in Clients |-> EmptyHeaders]
    /\ constructed = {}
    /\ frame = [t \in Threads |-> IdleFrame]

Finish(f, outcome) == [f EXCEPT !.pc = "done", !.outcome = outcome]


-----------------------------------------------------------------------------
\* The token cache.

\* Mutant: the instant now == expiry does not count as expired.
IsTokenExpired_Strict == token_expiry = None \/ now > token_expiry[1]

\* _is_token_expired
IsTokenExpired == token_expiry = None \/ now >= token_expiry[1]

\* token_data and "access_token" in token_data
HasAccessToken(token_data) ==
    token_data # None /\ "access_token" \in DOMAIN token_data[1]

\* Mutant: a token response without expires_in gives a lifetime of 0.
ExpiresIn_DefaultZero(token_data) ==
    IF "expires_in" \in DOMAIN token_data[1]
    THEN IntOf(token_data[1].expires_in)
    ELSE Some(0)

\* Mutant: the lifetime is the default whatever the token response says.
ExpiresIn_IgnoresResponse(token_data) ==
    IF "expires_in" \in DOMAIN token_data[1] /\ IntOf(token_data[1].expires_in) = None
    THEN None
    ELSE Some(DefaultExpiresIn)

\* token_data.get("expires_in", 3600)
ExpiresIn(token_data) ==
    IF "expires_in" \in DOMAIN token_data[1]
    THEN IntOf(token_data[1].expires_in)
    ELSE Some(DefaultExpiresIn)

\* Mutant: the staleness check is repeated after the refresh.
AfterSetAccessToken_Recheck(f) ==
    IF f.ret = "__init__" THEN Finish(f, Constructed)
    ELSE [f EXCEPT !.pc = "ensure"]

\* The frame of a call when its _set_access_token has returned normally.
AfterSetAccessToken(f) ==
    IF f.ret = "__init__" THEN Finish(f, Constructed)
    ELSE IF f.ret = "_ensure_valid_token" THEN [f EXCEPT !.pc = "request"]
    ELSE [f EXCEPT !.pc = "ensure"]

\* Mutant: the failure is logged and the call goes on.
FailedToObtain_Swallowed(f) == AfterSetAccessToken(f)

\* logger.error(...); raise Exception("Failed to obtain access token")
FailedToObtain(f) == Finish(f, AuthenticationFailure)

\* _set_access_token: one token exchange, then the assignments to the cache
\* and to the instance's headers, or the exception.
SetAccessToken(t) ==
    /\ frame[t].pc = "set_access_token"
    /\ \E token_data \in TokenResponses(Credentials[frame[t].self]) :
         LET f == [frame[t] EXCEPT !.nexch = @ + 1, !.token_data = Some(token_data),
                                   !.redundant = frame[t].stale \notin {None, Some(token_expiry)},
                                   !.stale = None]
             c == f.self
         IN  IF HasAccessToken(token_data)
             THEN /\ access_token' = Some(token_data[1].access_token)
                  /\ IF ExpiresIn(token_data) = None
                     THEN \* int(expires_in) raises after the token was stored
                          /\ frame' = [frame EXCEPT ![t] = Finish(f, Raises("ValueError"))]
                          /\ UNCHANGED <<token_expiry, headers, constructed>>
                     ELSE /\ token_expiry' = Some(now + ExpiresIn(token_data)[1])
                          /\ headers' = [headers EXCEPT ![c] = Bearer(access_token')]
                          /\ frame' = [frame EXCEPT ![t] = AfterSetAccessToken(f)]
                          /\ constructed' = IF f.ret = "__init__"
                                            THEN constructed \cup {c}
                                            ELSE constructed
             ELSE /\ frame' = [frame EXCEPT ![t] = FailedToObtain(f)]
                  /\ UNCHANGED <<access_token, token_expiry, headers, constructed>>
    /\ UNCHANGED <<now, ticks>>

\* _ensure_valid_token: the staleness check before an API request.
EnsureValidToken(t) ==
    /\ frame[t].pc = "ensure"
    /\ frame' = [frame EXCEPT ![t] =
                   IF IsTokenExpired
                   THEN [@ EXCEPT !.pc = "set_access_token", !.ret = "_ensure_valid_token",
                                  !.stale = Some(token_expiry)]
                   ELSE [@ EXCEPT !.pc = "request"]]
    /\ UNCHANGED <<now, ticks, access_token, token_expiry, headers, constructed>>

-----------------------------------------------------------------------------
\* Construction.

\* Mpesa(consumer_key, consumer_secret, env)
Construct(t, c) ==
    /\ frame[t].pc = "idle"
    /\ c \notin constructed
    /\ \A u \in Threads : frame[u].self # c
    /\ LET f == [IdleFrame EXCEPT !.self = c, !.op = "__init__"]
       IN  IF access_token = None \/ IsTokenExpired
           THEN /\ headers' = [headers EXCEPT ![c] = EmptyHeaders]
                /\ frame' = [frame EXCEPT ![t] =
                               [f EXCEPT !.pc = "set_access_token", !.ret = "__init__",
                                         !.stale = Some(token_expiry)]]
                /\ UNCHANGED constructed
           ELSE /\ headers' = [headers EXCEPT ![c] = Bearer(access_token)]
                /\ frame' = [frame EXCEPT ![t] = Finish(f, Constructed)]
                /\ constructed' = constructed \cup {c}
    /\ UNCHANGED <<now, ticks, access_token, token_expiry>>

-----------------------------------------------------------------------------
\* An operation call.

\* Mutant: the error code alone decides, whatever the status.
IsStaleTokenResponse_AnyStatus(status, response) ==
    Get(response, "errorCode") = Some("404.001.03")

\* req.status_code == 401 and response.get("errorCode") == "404.001.03"
IsStaleTokenResponse(status, response) ==
    status = 401 /\ Get(response, "errorCode") = Some("404.001.03")

\* What the network and the server do to a request.
LinkAt(f) == IF f.net = <<>> THEN "up" ELSE Head(f.net)
Answers(link) == IF link = "up" THEN ServerAnswers ELSE TransportFailures

\* What _make_request returns for an answer: the response, or None when
\* requests.request or raise_for_status raised a RequestException.
Response(ans) ==
    IF ans \in TransportFailures THEN None
    ELSE IF RaiseForStatus(ans.status) THEN None
    ELSE Some(ans)

\* Mutant: a failed first request is sent again.
AfterRequest_RetryOnFailure(f, req) ==
    IF req = None
    THEN IF f.nreq = 1 THEN [f EXCEPT !.pc = "ensure"] ELSE Finish(f, RetryFailedOutcome)
    ELSE LET response == JsonLoads(req[1].text)
         IN  IF response = None
             THEN Finish(f, Raises("JSONDecodeError"))
             ELSE IF f.nreq = 1 /\ IsStaleTokenResponse(req[1].status, response[1])
             THEN [f EXCEPT !.pc = "set_access_token",
                            !.ret = "_process_and_request",
                            !.nforced = @ + 1]
             ELSE Finish(f, Returns(response[1], req[1].status))

\* Mutant: a failed request is sent again until it is answered.
AfterRequest_RetryLoop(f, req) ==
    IF req = None
    THEN [f EXCEPT !.pc = "ensure"]
    ELSE LET response == JsonLoads(req[1].text)
         IN  IF response = None
             THEN Finish(f, Raises("JSONDecodeError"))
             ELSE IF f.nreq = 1 /\ IsStaleTokenResponse(req[1].status, response[1])
             THEN [f EXCEPT !.pc = "set_access_token",
                            !.ret = "_process_and_request",
                            !.nforced = @ + 1]
             ELSE Finish(f, Returns(response[1], req[1].status))

\* _process_and_request from the return of _make_request on: f.nreq = 1 at
\* line 152, f.nreq = 2 at line 159.
AfterRequest(f, req) ==
    IF req = None
    THEN Finish(f, IF f.nreq = 1 THEN RequestFailedOutcome ELSE RetryFailedOutcome)
    ELSE LET response == JsonLoads(req[1].text)
         IN  IF response = None
             THEN Finish(f, Raises("JSONDecodeError"))
             ELSE IF f.nreq = 1 /\ IsStaleTokenResponse(req[1].status, response[1])
             THEN [f EXCEPT !.pc = "set_access_token",
                            !.ret = "_process_and_request",
                            !.nforced = @ + 1]
             ELSE Finish(f, Returns(response[1], req[1].status))

\* Mutant: the ValidationError is logged and the payload sent all the same.
Validated_Unchecked(f) == [f EXCEPT !.pc = "ensure"]

\* The frame after model(**data).dict(): ValidationError, or on to _make_request.
Validated(f) ==
    IF ModelAccepts(Bindings[f.op][1], f.data)
    THEN [f EXCEPT !.pc = "ensure"]
    ELSE Finish(f, ValidationErrorOutcome)

\* One of the 9 operation methods is called: _process_and_request up to
\* the call of _make_request.
ProcessAndRequest(t, c, op, data, net) ==
    /\ frame[t].pc = "idle"
    /\ c \in constructed
    /\ frame' = [frame EXCEPT ![t] =
                   Validated([IdleFrame EXCEPT !.self = c, !.op = op,
                                               !.data = data, !.net = net])]
    /\ UNCHANGED <<now, ticks, access_token, token_expiry, headers, constructed>>

\* _make_request after the staleness check: the API request is sent with
\* self.headers and answered, and _process_and_request handles the result.
MakeRequest(t) ==
    /\ frame[t].pc = "request"
    /\ \E ans \in Answers(LinkAt(frame[t])) :
         LET f == [frame[t] EXCEPT !.nreq = @ + 1,
                                   !.sent = headers[frame[t].self],
                                   !.net = IF @ = <<>> THEN @ ELSE Tail(@),
                                   !.first = IF frame[t].nreq = 0 THEN Some(ans) ELSE @]
         IN  frame' = [frame EXCEPT ![t] = AfterRequest(f, Response(ans))]
    /\ UNCHANGED <<now, ticks, access_token, token_expiry, headers, constructed>>

\* The caller takes the outcome of the call.
Return(t) ==
    /\ frame[t].pc = "done"
    /\ frame' = [frame EXCEPT ![t] = IdleFrame]
    /\ UNCHANGED <<now, ticks, access_token, token_expiry, headers, constructed>>

\* Time passes.
Tick ==
    /\ ticks < MaxTicks
    /\ \E d \in TickSteps : now' = now + d
    /\ ticks' = ticks + 1
    /\ UNCHANGED <<access_token, token_expiry, headers, constructed, frame>>

-----------------------------------------------------------------------------
\* The states of the network at the two requests a call can send.
NetPlans == { <<l1, l2>> : l1 \in Links, l2 \in Links }

Step(t) ==
    \/ \E c \in Clients : Construct(t, c)
    \/ \E c \in Clients, op \in Operations, data \in RawInputs, net \in NetPlans :
         ProcessAndRequest(t, c, op, data, net)
    \/ EnsureValidToken(t)
    \/ SetAccessToken(t)
    \/ MakeRequest(t)
    \/ Return(t)

\* One thread makes the calls.
Next == Tick \/ \E t \in MainThreads : Step(t)

Spec == Init /\ [][Next]_vars

\* Several threads make calls on one shared instance, with no locking.
SharedClients == {"a"}
SharedOperations == {"b2b_payment_request"}
ThreadStep(t) ==
    \/ \E c \in SharedClients : Construct(t, c)
    \/ \E c \in SharedClients, op \in SharedOperations :
         ProcessAndRequest(t, c, op, "complete", <<"up", "up">>)
    \/ EnsureValidToken(t)
    \/ SetAccessToken(t)
    \/ MakeRequest(t)
    \/ Return(t)

NextThreads == Tick \/ \E t \in Threads : ThreadStep(t)

SpecThreads == Init /\ [][NextThreads]_vars

-----------------------------------------------------------------------------
\* Vocabulary of the properties.

\* Thread t is in, or has just finished, a call of one of the 9 operation methods.
InOperation(t) == frame[t].op \in Operations
Finished(t) == frame[t].pc = "done" /\ InOperation(t)

\* The stale-token answer of the server.
StaleTokenAnswer == [status |-> 401, text |-> JsonDumps([errorCode |-> "404.001.03"])]

\* The first API request of t's call was answered by the server with ans.
FirstAnswer(t, ans) == frame[t].first = Some(ans)
FirstAnswered(t) == frame[t].first # None /\ frame[t].first[1] \in ServerAnswers
FirstFailed(t) == frame[t].first # None /\ frame[t].first[1] \in TransportFailures

-----------------------------------------------------------------------------
\* C1: an operation call whose payload fails validation ends at once with
\* ({message: "Validation error"}, 400): it has sent no API request and made
\* no token exchange, it leaves the cached token and expiry as they were, and
\* nothing of the call runs afterwards.
C1_ValidationErrorIsLocal ==
    [][\A t \in Threads :
         /\ ( /\ frame[t].pc = "idle"
              /\ frame'[t].pc # "idle"
              /\ frame'[t].op \in Operations
              /\ ~ModelAccepts(Bindings[frame'[t].op][1], frame'[t].data) )
            => /\ frame'[t].pc = "done"
               /\ frame'[t].outcome = Returns([message |-> "Validation error"], 400)
               /\ frame'[t].nreq = 0
               /\ frame'[t].nexch = 0
               /\ UNCHANGED <<access_token, token_expiry>>
         /\ frame[t].pc = "done" => frame'[t] \in {frame[t], IdleFrame}
      ]_vars

\* A reversal request without a required field has been refused while the
\* cached token was expired.
C1_Witness ==
    \E t \in Threads :
        /\ Finished(t)
        /\ frame[t].op = "reversal_request"
        /\ frame[t].data = "missing_required_field"
        /\ frame[t].outcome = ValidationErrorOutcome
        /\ access_token # None
        /\ token_expiry # None /\ now >= token_expiry[1]

\* C2: a call whose first API request was answered 401 with errorCode
\* "404.001.03" has made exactly one forced refresh and, unless that refresh
\* raised, has sent exactly two API requests.
C2_StaleTokenRefreshedAndRetried ==
    \A t \in Threads :
        (Finished(t) /\ FirstAnswer(t, StaleTokenAnswer))
        => /\ frame[t].nforced = 1
           /\ frame[t].outcome.kind = "return" => frame[t].nreq = 2

\* C3: a call whose first API request was answered with a non-2xx status
\* other than the stale-token answer returns the server's body and status,
\* after one API request and no forced refresh.
C3_UpstreamErrorVerbatim ==
    \A t \in Threads :
        ( /\ Finished(t)
          /\ FirstAnswered(t)
          /\ ~(200 <= frame[t].first[1].status /\ frame[t].first[1].status < 300)
          /\ frame[t].first[1] # StaleTokenAnswer )
        => /\ \E j \in JsonBodies :
                /\ JsonDumps(j) = frame[t].first[1].text
                /\ frame[t].outcome = Returns(j, frame[t].first[1].status)
           /\ frame[t].nforced = 0
           /\ frame[t].nreq = 1

\* C4: an operation call ends by returning a (body, status code) outcome or
\* by raising the authentication failure of a failed token exchange.
C4_OutcomeOrAuthenticationFailure ==
    \A t \in Threads :
        Finished(t)
        => \/ frame[t].outcome.kind = "return"
           \/ frame[t].outcome = Raises("Failed to obtain access token")

\* C5: a call whose first API request failed at the transport level returns
\* ({message: "Request failed"}, 500), after that one API request and
\* without a forced refresh.
C5_TransportFailure ==
    \A t \in Threads :
        /\ (InOperation(t) /\ FirstFailed(t))
           => /\ frame[t].pc = "done"
              /\ frame[t].outcome = Returns([message |-> "Request failed"], 500)
              /\ frame[t].nreq = 1
              /\ frame[t].nforced = 0

\* The first request of a call timed out and the call has returned.
C5_Witness ==
    \E t \in Threads :
        /\ Finished(t)
        /\ FirstAnswer(t, [exc |-> "Timeout"])
        /\ frame[t].outcome = RequestFailedOutcome

\* C6: a call sends at most two API requests and makes at most one forced
\* refresh, and the call is over once the second request has been handled.
C6_AtMostOneRetry ==
    \A t \in Threads :
        /\ frame[t].nreq <= 2
        /\ frame[t].nforced <= 1
        /\ frame[t].nreq = 2 => frame[t].pc = "done"

\* A call has ended after the one request it sent, which the server
\* answered with the stale-token answer.
C6_Witness ==
    \E t \in Threads :
        /\ Finished(t)
        /\ frame[t].nreq = 1
        /\ FirstAnswer(t, StaleTokenAnswer)

\* C7: a call whose first API request was answered with the stale-token
\* answer, and for whose second request the network is down, returns
\* ({message: "Request failed after token refresh"}, 500), unless the
\* refresh itself raised.
C7_RetryTransportFailure ==
    \A t \in Threads :
        ( /\ Finished(t)
          /\ FirstAnswer(t, StaleTokenAnswer)
          /\ frame[t].net = <<"down">> )
        => \/ frame[t].outcome = Returns([message |-> "Request failed after token refresh"], 500)
           \/ frame[t].outcome.kind = "raise"

\* C8: a token exchange that returns no data, or data without access_token,
\* ends the constructor or operation call with the authentication failure:
\* the cached token, the cached expiry and every instance's headers stay as
\* they were, no instance comes into being, and the call has sent no API
\* request.
C8_FailedExchangeRaises ==
    [][\A t \in Threads :
         ( /\ frame[t].pc = "set_access_token"
           /\ frame'[t] # frame[t]
           /\ \/ frame'[t].token_data[1] = None
              \/ "access_token" \notin DOMAIN frame'[t].token_data[1][1] )
         => /\ frame'[t].pc = "done"
            /\ frame'[t].outcome = Raises("Failed to obtain access token")
            /\ frame'[t].nreq = 0
            /\ UNCHANGED <<access_token, token_expiry, headers, constructed>>
      ]_vars

\* An operation call on an instance with a cached token has raised the
\* authentication failure.
C8_Witness ==
    \E t \in Threads :
        /\ Finished(t)
        /\ frame[t].outcome = AuthenticationFailure
        /\ frame[t].token_data = Some(None)
        /\ access_token # None
        /\ headers[frame[t].self] = Bearer(access_token)

\* C9: the staleness check before an API request makes no token exchange
\* and changes nothing when now < expiry; when no token is held or
\* now >= expiry it makes one token exchange, after which the call goes on
\* to the request or ends.
C9_EnsureValidToken ==
    [][\A t \in Threads :
         /\ (frame[t].pc = "ensure" /\ frame'[t] # frame[t])
            => /\ (token_expiry # None /\ now < token_expiry[1])
                  => /\ frame'[t] = [frame[t] EXCEPT !.pc = "request"]
                     /\ UNCHANGED <<access_token, token_expiry, headers>>
               /\ (access_token = None \/ (token_expiry # None /\ now >= token_expiry[1]))
                  => /\ frame'[t].pc = "set_access_token"
                     /\ frame'[t].ret = "_ensure_valid_token"
                     /\ frame'[t].nexch = frame[t].nexch
         /\ ( /\ frame[t].pc = "set_access_token"
              /\ frame[t].ret = "_ensure_valid_token"
              /\ frame'[t] # frame[t] )
            => /\ frame'[t].nexch = frame[t].nexch + 1
               /\ frame'[t].pc \in {"request", "done"}
      ]_vars

\* The check found the token expired at the very instant now == expiry and
\* the call has made its one exchange and is about to send the request.
C9_Witness ==
    \E t \in Threads :
        /\ frame[t].pc = "request"
        /\ frame[t].nreq = 0
        /\ frame[t].nexch = 1
        /\ now = DefaultExpiresIn

\* C10: a call whose first API request was answered 200 with a JSON body
\* returns that body with status 200, after one API request and no forced
\* refresh.
C10_SuccessVerbatim ==
    \A t \in Threads :
        \A j \in JsonBodies :
            (InOperation(t) /\ FirstAnswer(t, [status |-> 200, text |-> JsonDumps(j)]))
            => /\ frame[t].pc = "done"
               /\ frame[t].outcome = Returns(j, 200)
               /\ frame[t].nreq = 1
               /\ frame[t].nforced = 0

\* A C2B registration was answered 200 and has returned the server's body.
C10_Witness ==
    \E t \in Threads :
        /\ Finished(t)
        /\ frame[t].op = "c2b_register_url"
        /\ FirstAnswer(t, [status |-> 200, text |-> JsonDumps([ResponseCode |-> "0"])])
        /\ frame[t].outcome = Returns([ResponseCode |-> "0"], 200)

-----------------------------------------------------------------------------
\* Thread t sends an API request in this step.
SendsRequest(t) == frame'[t].nreq = frame[t].nreq + 1

\* C11: every API request carries, as its bearer Authorization header, the
\* access token that the token cache holds at the moment the request is sent.
C11_RequestCarriesCachedToken ==
    [][\A t \in Threads :
         SendsRequest(t) => frame'[t].sent = Some([Authorization |-> access_token])
      ]_vars

\* Thread t's token exchange returns in this step and both the cached token
\* and the cached expiry take the values of that exchange.
RefreshReplacesBoth(t) ==
    /\ frame[t].pc = "set_access_token"
    /\ frame'[t].nexch = frame[t].nexch + 1
    /\ LET token_data == frame'[t].token_data[1]
       IN  /\ token_data # None
           /\ "access_token" \in DOMAIN token_data[1]
           /\ access_token' = Some(token_data[1].access_token)
           /\ ExpiresIn(token_data) # None
           /\ token_expiry' = Some(now + ExpiresIn(token_data)[1])

\* C12: in every step the cached token and the cached expiry either both
\* stay as they are or are both replaced by the values of the token exchange
\* that returns in that step.
C12_TokenAndExpiryReplacedTogether ==
    [][ \/ UNCHANGED <<access_token, token_expiry>>
        \/ \E t \in Threads : RefreshReplacesBoth(t)
      ]_vars

\* C13: _is_token_expired is true exactly when no access token is held or
\* the current time has reached the stored expiry.
C13_ExpiredIffNoTokenOrPastExpiry ==
    IsTokenExpired
    <=> \/ access_token = None
        \/ token_expiry # None /\ now >= token_expiry[1]

\* C14: a call that has made no forced refresh has made at most one token
\* exchange, however the threads interleave: one staleness check never leads
\* to two exchanges by the same thread.  (That two threads both make an
\* exchange for the same expiry is the reachable state C14_Witness.)
C14_OneExchangePerCheck ==
    \A t \in Threads :
        (InOperation(t) /\ frame[t].nforced = 0)
        => /\ frame[t].nexch <= 1
           /\ frame[t].pc = "request" => frame[t].stale = None

\* Two threads run operation calls at once; both found the token expired,
\* one has refreshed it, and the other has made its exchange all the same,
\* for the expiry that was already replaced.
C14_Witness ==
    \E t \in Threads : \E u \in Threads \ {t} :
        /\ InOperation(t) /\ InOperation(u)
        /\ frame[t].nexch = 1 /\ frame[u].nexch = 1
        /\ frame[t].pc = "request" /\ frame[u].pc = "request"
        /\ frame[u].redundant
        /\ ~frame[t].redundant

\* Thread t's _set_access_token returns normally in this step.
RefreshCompletes(t) ==
    /\ frame[t].pc = "set_access_token"
    /\ frame'[t].nexch = frame[t].nexch + 1
    /\ frame'[t].outcome.kind # "raise"

\* The token response the last exchange of t's call returned.
LastTokenData(t) == frame[t].token_data[1][1]

\* C15, as claimed: after every refresh that completes, a token is held and
\* now < expiry, so that the staleness check reports the token not expired.
C15_RefreshLeavesValid ==
    [][\A t \in Threads :
         RefreshCompletes(t)
         => /\ access_token' # None
            /\ token_expiry' # None
            /\ now' < token_expiry'[1]
      ]_vars

\* C15, amended: after every refresh that completes with a token response
\* that has no expires_in or an expires_in greater than 0, a token is held
\* and now < expiry, so that the staleness check reports the token not
\* expired.
C15_PositiveLifetimeLeavesValid ==
    [][\A t \in Threads :
         ( /\ RefreshCompletes(t)
           /\ \/ "expires_in" \notin DOMAIN LastTokenData(t)'
              \/ IntOf(LastTokenData(t)'.expires_in)[1] > 0 )
         => /\ access_token' # None
            /\ token_expiry' # None
            /\ now' < token_expiry'[1]
            /\ ~IsTokenExpired'
      ]_vars

\* A refresh with expires_in "2" has completed and the token is not expired.
C15_Witness ==
    \E t \in Threads :
        /\ frame[t].token_data # None
        /\ frame[t].token_data[1] # None
        /\ frame[t].outcome.kind # "raise"
        /\ "expires_in" \in DOMAIN LastTokenData(t)
        /\ LastTokenData(t).expires_in = "2"
        /\ access_token = Some(LastTokenData(t).access_token)
        /\ token_expiry = Some(now + 2)

\* C16: a refresh that completes stores expiry = now + expires_in, with the
\* expires_in of the token response, and now + 3600 when the response has
\* none.
C16_ExpiryIsNowPlusExpiresIn ==
    [][\A t \in Threads :
         RefreshCompletes(t)
         => LET token_data == LastTokenData(t)'
            IN  /\ "expires_in" \notin DOMAIN token_data
                   => token_expiry' = Some(now + 3600)
                /\ "expires_in" \in DOMAIN token_data
                   => \/ token_data.expires_in = "2" /\ token_expiry' = Some(now + 2)
                      \/ token_data.expires_in = "0" /\ token_expiry' = Some(now)
                      \/ token_data.expires_in = "-1" /\ token_expiry' = Some(now - 1)
      ]_vars

\* A refresh made after the clock has advanced got no expires_in and has
\* stored now + 3600.
C16_Witness ==
    \E t \in Threads :
        /\ frame[t].token_data # None
        /\ frame[t].token_data[1] # None
        /\ frame[t].outcome.kind # "raise"
        /\ DOMAIN LastTokenData(t) = {"access_token"}
        /\ access_token = Some(LastTokenData(t).access_token)
        /\ now > 0
        /\ token_expiry = Some(now + 3600)

\* C17: every API request of an instance carries a token that a token
\* exchange made with that instance's own credentials has returned.
C17_RequestCarriesOwnToken ==
    [][\A t \in Threads :
         SendsRequest(t)
         => /\ frame'[t].sent # None
            /\ frame'[t].sent[1].Authorization # None
            /\ frame'[t].sent[1].Authorization[1].cred = Credentials[frame[t].self]
      ]_vars

====
